---- MODULE Spec2Model ----
(***************************************************************************)
(* wurzel: an express router that serves script files to a debugging       *)
(* client, transpiling non-native files on demand and caching transpiled   *)
(* output and code analysis in two byte-budgeted LRU caches.               *)
(*                                                                         *)
(* Spec models src/lib/index.ts.  SpecInlineResolver models the router of  *)
(* src/unnamed/part_000, which differs in its resolveImportPath and in the *)
(* read errors of its tryReadScriptAsString, which carry no cause.         *)
(* SequentialSpec serves one request at a time and records the last call   *)
(* of maybeTranspile.  FairSpec adds that everything but readFile and the  *)
(* external transpiler goes on with a request whenever it can.             *)
(* A step is what runs in one turn of the event loop: a request is taken   *)
(* up again after each await (of readFile, of transpileCode, of            *)
(* maybeTranspile, of resolveImportPath), and steps of other requests may  *)
(* come in between.                                                        *)
(* The debug core (es6-debug-server), the transpiler (commentscript), the  *)
(* analyzer, the file system and the module resolver are collaborators:    *)
(* their answers are inputs, drawn from small sets.  lru-cache is          *)
(* modelled by its documented behaviour under maxSize/sizeCalculation.     *)
(***************************************************************************)
EXTENDS Integers, Sequences, FiniteSets, TLC

(***************************************************************************)
(* Strings                                                                 *)
(***************************************************************************)

\* JavaScript's undefined, a value no file content of the model equals
Undefined == "undefined"

\* String.prototype.endsWith
EndsWith(s, suffix) ==
  Len(s) >= Len(suffix) /\ SubSeq(s, Len(s) - Len(suffix) + 1, Len(s)) = suffix

\* String.prototype.startsWith
StartsWith(s, prefix) ==
  Len(s) >= Len(prefix) /\ SubSeq(s, 1, Len(prefix)) = prefix

(***************************************************************************)
(* Configuration and inputs                                                *)
(***************************************************************************)

\* the requests in flight at the same time
MaxRequests == 2
Reqs == 1..MaxRequests

\* expressRouter's parameters: fileEndings has its default; the two byte budgets
\* are scaled down from 64 MiB and 1 MiB so that a few entries fill them
fileEndings == <<".js", ".ts">>
maxTranspileCacheSize == 72
maxAnalyzeCacheSize == 50

Methods == {"GET", "HEAD"}
Urls == {"/app.ts", "/lib.js", "/mod.mjs", "/styles.css"}
\* the files the debug core asks tryReadScriptAsString for
FilePaths == {"/srv/app.ts", "/srv/main.ts", "/srv/lib.js", "/srv/mod.mjs"}

\* what a file may hold (any file, at any time); BigContent alone exceeds either
\* budget
BigContent == "xxxxxxxxxxxxxxxxxxxxxxxxxxxxxxxxxxxxxxxxxxxx"
Contents == {"a", "a;", "a;;", BigContent}

\* readFile's failures (err.code)
ReadErrorCodes == {"ENOENT", "EACCES"}

\* transpileCode({ code }): it yields a string (result.transpiledCode), throws, or
\* breaks its contract and yields no string
TranspilerOutcomes == {"returns", "throws", "returnsUndefined"}
transpiledCode(code) == code \o ";"

\* a transpiler that is not a function of its input alone: for the same code it
\* yields transpiledCode(code) at one call ("returns") and another string at
\* another call ("returnsVariant")
VariantTranspilerOutcomes == TranspilerOutcomes \cup {"returnsVariant"}
transpilerOutput(code, outcome) ==
  IF outcome = "returnsVariant" THEN code \o ";;" ELSE transpiledCode(code)

\* defaultCodeAnalyzer({ code }): { result } or { error }; a result is modelled by
\* its JSON text
AnalyzerOutcomes == {"result", "error"}
analyzedResult(code) == "[" \o code \o "]"
JSONStringify(value) == value

\* what import-meta-resolve's resolve makes of a specifier: it throws, or returns a URL
ResolveOutcomes ==
  {"throws", "file:///srv/dep.js", "file:///srv/a%20b.js", "node:fs", "https://cdn.test/x.js"}

\* createHash("md5").update(content).digest("hex"), for every string the router
\* hashes: the contents and what the transpiler makes of them
MD5Digests ==
  {
     << "a", "0cc175b9c0f1b6a831c399e269772661" >>,
     << "a;", "8dc997980a4d9311804614607a080152" >>,
     << "a;;", "f22b3bde11b447673fffb69b159d0b65" >>,
     << "a;;;", "fd3559479b0779b1b659883c326749de" >>,
     << BigContent, "1d33e0c7f2723c75a636997239ae1c3c" >>,
     << BigContent \o ";", "364ad2d41f8200e7ccb9bde436379aa5" >>,
     << "a;;;;", "a5d6ef09e18c9167734a0934747d51ff" >>,
     << BigContent \o ";;", "11bccfeba746cfdca0b0612f3b11a912" >>
  }

\* a digest that distinct contents share: the digest of "a" for every short content
md5Colliding(content) ==
  (CHOOSE p \in MD5Digests :
     p[1] = IF Len(content) < Len(BigContent) THEN "a" ELSE BigContent)[2]

\* md5({ content })
md5(content) == (CHOOSE p \in MD5Digests : p[1] = content)[2]

(***************************************************************************)
(* LRUCache (lru-cache) with maxSize and sizeCalculation: a sequence of     *)
(* entries [key, value, size] from least to most recently used.            *)
(***************************************************************************)

LRUKeys(cache) == {cache[i].key : i \in DOMAIN cache}

RECURSIVE LRUCalculatedSize(_)
LRUCalculatedSize(cache) ==
  IF cache = <<>> THEN 0 ELSE Head(cache).size + LRUCalculatedSize(Tail(cache))

RECURSIVE LRUWithout(_, _)
LRUWithout(cache, key) ==
  IF cache = <<>> THEN <<>>
  ELSE IF Head(cache).key = key THEN LRUWithout(Tail(cache), key)
  ELSE <<Head(cache)>> \o LRUWithout(Tail(cache), key)

LRUEntry(cache, key) == cache[CHOOSE i \in DOMAIN cache : cache[i].key = key]

\* cache.get(key): the value, or undefined
LRUGet(cache, key) ==
  IF key \in LRUKeys(cache) THEN LRUEntry(cache, key).value ELSE Undefined

\* the cache after cache.get(key): a hit moves the entry to the most recent end
LRUAfterGet(cache, key) ==
  IF key \in LRUKeys(cache)
  THEN LRUWithout(cache, key) \o <<LRUEntry(cache, key)>>
  ELSE cache

\* evict from the least recently used end while the entries exceed limit
RECURSIVE LRUEvict(_, _)
LRUEvict(cache, limit) ==
  IF cache # <<>> /\ LRUCalculatedSize(cache) > limit
  THEN LRUEvict(Tail(cache), limit)
  ELSE cache

\* a set that makes room for an entry bigger than maxSize by evicting every other
\* entry, and stores it
LRUAfterSetStoresOversized(cache, maxSize, key, value, size) ==
  LRUEvict(LRUWithout(cache, key), maxSize - size)
    \o << [value |-> value, key |-> key, size |-> size] >>

\* the cache after cache.set(key, value), size being sizeCalculation(value, key):
\* an entry bigger than maxSize is not stored (and the key's old entry is deleted);
\* otherwise older entries are evicted until the new one fits, and it becomes the
\* most recently used
LRUAfterSet(cache, maxSize, key, value, size) ==
  IF size > maxSize
  THEN LRUWithout(cache, key)
  ELSE LRUEvict(LRUWithout(cache, key), maxSize - size)
         \o << [value |-> value, key |-> key, size |-> size] >>

\* a size that leaves the key out
transpileSizeOfValueOnly(value, key) == Len(value)

\* sizeCalculation of transpileCache and of analyzeCache
transpileSizeCalculation(value, key) == Len(key) + Len(value)
analyzeSizeCalculation(value, key) == Len(key) + Len(JSONStringify(value))

(***************************************************************************)
(* The router's functions                                                  *)
(***************************************************************************)

\* a TTranspileResult with neither field set, and the error a transpiler throws
NoTranspileResult == [error |-> Undefined, transpiled |-> Undefined]
TranspileError == "TranspileError"

\* a test that forgets the .mjs ending
isNativePathJsOnly(filePath) == EndsWith(filePath, ".js")

\* maybeTranspile's test for a file the client runs as it is
isNativePath(filePath) == EndsWith(filePath, ".js") \/ EndsWith(filePath, ".mjs")

\* a key made of the path of the file instead of its content
transpileCacheKeyByPath(filePath, code) == filePath

\* the key maybeTranspile looks up and stores under
transpileCacheKey(filePath, code) == md5(code)

\* a lookup with peek instead of get: a hit does not count as an access
maybeTranspileStartPeek(cache, filePath, code) ==
  IF EndsWith(filePath, ".js") \/ EndsWith(filePath, ".mjs")
  THEN [cache |-> cache, await |-> FALSE, hash |-> Undefined,
        result |-> [error |-> Undefined, transpiled |-> code]]
  ELSE IF LRUGet(cache, md5(code)) # Undefined
  THEN [cache |-> cache, await |-> FALSE, hash |-> md5(code),
        result |-> [error |-> Undefined, transpiled |-> LRUGet(cache, md5(code))]]
  ELSE [cache |-> cache, await |-> TRUE, hash |-> md5(code), result |-> NoTranspileResult]

\* maybeTranspile up to its await: the pass-through of a native file, the lookup,
\* and on a miss the call of the transpiler (await: the call is pending, hash
\* being kept for the store that follows it)
maybeTranspileStart(cache, filePath, code) ==
  IF isNativePath(filePath)
  THEN [cache |-> cache, await |-> FALSE, hash |-> Undefined,
        result |-> [error |-> Undefined, transpiled |-> code]]
  ELSE LET hash == transpileCacheKey(filePath, code)
           cached == LRUGet(cache, hash)
       IN  IF cached # Undefined
           THEN [cache |-> LRUAfterGet(cache, hash), await |-> FALSE, hash |-> hash,
                 result |-> [error |-> Undefined, transpiled |-> cached]]
           ELSE [cache |-> LRUAfterGet(cache, hash), await |-> TRUE, hash |-> hash,
                 result |-> NoTranspileResult]

\* a maybeTranspile that forgets to store what the transpiler returned
maybeTranspileResumeNoStore(cache, hash, code, outcome) ==
  IF outcome = "throws"
  THEN [cache |-> cache, result |-> [error |-> TranspileError, transpiled |-> Undefined],
        threw |-> FALSE]
  ELSE IF outcome = "returnsUndefined"
  THEN [cache |-> cache, result |-> NoTranspileResult, threw |-> TRUE]
  ELSE [cache |-> cache, result |-> [error |-> Undefined, transpiled |-> transpiledCode(code)],
        threw |-> FALSE]

\* a maybeTranspile that stores under the hash before it looks at the error
maybeTranspileResumeStoreFailure(cache, hash, code, outcome) ==
  IF outcome = "throws"
  THEN [cache |-> LRUAfterSet(cache, maxTranspileCacheSize, hash, "",
                              transpileSizeCalculation("", hash)),
        result |-> [error |-> TranspileError, transpiled |-> Undefined],
        threw |-> FALSE]
  ELSE IF outcome = "returnsUndefined"
  THEN [cache |-> cache, result |-> NoTranspileResult, threw |-> TRUE]
  ELSE [cache |-> LRUAfterSet(cache, maxTranspileCacheSize, hash, transpiledCode(code),
                              transpileSizeCalculation(transpiledCode(code), hash)),
        result |-> [error |-> Undefined, transpiled |-> transpiledCode(code)],
        threw |-> FALSE]

\* a maybeTranspile that stores the transpiled string and returns the code it was given
maybeTranspileResumeReturnsCode(cache, hash, code, outcome) ==
  IF outcome = "throws"
  THEN [cache |-> cache, result |-> [error |-> TranspileError, transpiled |-> Undefined],
        threw |-> FALSE]
  ELSE IF outcome = "returnsUndefined"
  THEN [cache |-> cache, result |-> NoTranspileResult, threw |-> TRUE]
  ELSE LET transpiled == transpilerOutput(code, outcome)
       IN  [cache |-> LRUAfterSet(cache, maxTranspileCacheSize, hash, transpiled,
                                  transpileSizeCalculation(transpiled, hash)),
            result |-> [error |-> Undefined, transpiled |-> code],
            threw |-> FALSE]

\* a maybeTranspile that returns an error when the transpiler gave it no string
maybeTranspileResumeUndefinedAsError(cache, hash, code, outcome) ==
  IF outcome = "throws" \/ outcome = "returnsUndefined"
  THEN [cache |-> cache, result |-> [error |-> TranspileError, transpiled |-> Undefined],
        threw |-> FALSE]
  ELSE LET transpiled == transpilerOutput(code, outcome)
       IN  [cache |-> LRUAfterSet(cache, maxTranspileCacheSize, hash, transpiled,
                                  transpileSizeCalculation(transpiled, hash)),
            result |-> [error |-> Undefined, transpiled |-> transpiled],
            threw |-> FALSE]

\* a maybeTranspile that leaves an entry another call stored in the meantime
maybeTranspileResumeKeepFirst(cache, hash, code, outcome) ==
  IF outcome = "throws"
  THEN [cache |-> cache, result |-> [error |-> TranspileError, transpiled |-> Undefined],
        threw |-> FALSE]
  ELSE IF outcome = "returnsUndefined"
  THEN [cache |-> cache, result |-> NoTranspileResult, threw |-> TRUE]
  ELSE LET transpiled == transpilerOutput(code, outcome)
       IN  [cache |-> IF hash \in LRUKeys(cache) THEN cache
                      ELSE LRUAfterSet(cache, maxTranspileCacheSize, hash, transpiled,
                                       transpileSizeCalculation(transpiled, hash)),
            result |-> [error |-> Undefined, transpiled |-> transpiled],
            threw |-> FALSE]

\* maybeTranspile from the transpiler's answer on: a failure is returned and not
\* stored, a missing string is raised (threw), a string is stored and returned
maybeTranspileResume(cache, hash, code, outcome) ==
  IF outcome = "throws"
  THEN [cache |-> cache, result |-> [error |-> TranspileError, transpiled |-> Undefined],
        threw |-> FALSE]
  ELSE IF outcome = "returnsUndefined"
  THEN [cache |-> cache, result |-> NoTranspileResult, threw |-> TRUE]
  ELSE LET transpiled == transpilerOutput(code, outcome)
       IN  [cache |-> LRUAfterSet(cache, maxTranspileCacheSize, hash, transpiled,
                                  transpileSizeCalculation(transpiled, hash)),
            result |-> [error |-> Undefined, transpiled |-> transpiled],
            threw |-> FALSE]

\* createReadError({ code, message, cause }), and the absence of an error
createReadError(code, cause) == [code |-> code, cause |-> cause]
NoReadError == [code |-> Undefined, cause |-> Undefined]
NoRead == [content |-> Undefined, error |-> NoReadError]

\* a tryReadScriptAsString that does not look at err.code
readFailedAsIOError(errCode) ==
  [content |-> Undefined, error |-> [code |-> "IO_ERROR", cause |-> errCode]]

\* tryReadScriptAsString when readFile fails with err.code
readFailed(errCode) ==
  IF errCode = "ENOENT"
  THEN [content |-> Undefined, error |-> createReadError("FILE_NOT_FOUND", errCode)]
  ELSE [content |-> Undefined, error |-> createReadError("IO_ERROR", errCode)]

\* tryReadScriptAsString once maybeTranspile has returned
readTranspiled(result) ==
  IF result.error # Undefined
  THEN [content |-> Undefined, error |-> createReadError("IO_ERROR", result.error)]
  ELSE [content |-> result.transpiled, error |-> NoReadError]

\* tryReadScriptAsString of src/unnamed/part_000 when readFile fails with
\* err.code: a plain object of code and message, without a cause
inlineReadFailed(errCode) ==
  IF errCode = "ENOENT"
  THEN [content |-> Undefined, error |-> [code |-> "FILE_NOT_FOUND", cause |-> Undefined]]
  ELSE [content |-> Undefined, error |-> [code |-> "IO_ERROR", cause |-> Undefined]]

\* tryReadScriptAsString of src/unnamed/part_000 once maybeTranspile has returned
inlineReadTranspiled(result) ==
  IF result.error # Undefined
  THEN [content |-> Undefined, error |-> [code |-> "IO_ERROR", cause |-> Undefined]]
  ELSE [content |-> result.transpiled, error |-> NoReadError]

\* an analyzeCode that does not store the result of the analyzer
analyzeCodeNoStore(cache, code, outcome) ==
  LET hash == md5(code)
      cached == LRUGet(cache, hash)
  IN  IF cached # Undefined
      THEN [cache |-> LRUAfterGet(cache, hash), error |-> Undefined,
            result |-> cached, invoked |-> FALSE]
      ELSE IF outcome = "error"
      THEN [cache |-> cache, error |-> "AnalyzeError", result |-> Undefined, invoked |-> TRUE]
      ELSE [cache |-> cache, error |-> Undefined, result |-> analyzedResult(code),
            invoked |-> TRUE]

\* an analyzeCode that stores what the analyzer answered before it looks at the error
analyzeCodeStoreFailure(cache, code, outcome) ==
  LET hash == md5(code)
      cached == LRUGet(cache, hash)
      answer == IF outcome = "error" THEN "AnalyzeError" ELSE analyzedResult(code)
  IN  IF cached # Undefined
      THEN [cache |-> LRUAfterGet(cache, hash), error |-> Undefined,
            result |-> cached, invoked |-> FALSE]
      ELSE [cache |-> LRUAfterSet(cache, maxAnalyzeCacheSize, hash, answer,
                                  analyzeSizeCalculation(answer, hash)),
            error |-> IF outcome = "error" THEN "AnalyzeError" ELSE Undefined,
            result |-> IF outcome = "error" THEN Undefined ELSE answer,
            invoked |-> TRUE]

\* analyzeCode({ code }), the analyzer answering with outcome when it is asked
analyzeCode(cache, code, outcome) ==
  LET hash == md5(code)
      cached == LRUGet(cache, hash)
  IN  IF cached # Undefined
      THEN [cache |-> LRUAfterGet(cache, hash), error |-> Undefined,
            result |-> cached, invoked |-> FALSE]
      ELSE IF outcome = "error"
      THEN [cache |-> LRUAfterGet(cache, hash), error |-> "AnalyzeError",
            result |-> Undefined, invoked |-> TRUE]
      ELSE [cache |-> LRUAfterSet(cache, maxAnalyzeCacheSize, hash, analyzedResult(code),
                                  analyzeSizeCalculation(analyzedResult(code), hash)),
            error |-> Undefined,
            result |-> analyzedResult(code), invoked |-> TRUE]

\* node:url's fileURLToPath on a POSIX host, for every URL resolveImport yields
\* here: a file: URL without a host gives its percent-decoded path, a URL of
\* another scheme makes it throw
FileURLPaths ==
  {
     << "file:///srv/dep.js", [threw |-> FALSE, path |-> "/srv/dep.js"] >>,
     << "file:///srv/a%20b.js", [threw |-> FALSE, path |-> "/srv/a b.js"] >>,
     << "node:fs", [threw |-> TRUE, path |-> Undefined] >>,
     << "https://cdn.test/x.js", [threw |-> TRUE, path |-> Undefined] >>
  }

\* fileURLToPath(resolvedUrl)
fileURLToPath(url) == (CHOOSE p \in FileURLPaths : p[1] = url)[2]

NoResolution == [error |-> Undefined, filePath |-> Undefined, threw |-> FALSE, url |-> Undefined]

\* defaultResolveImportPath (src/lib/index.ts), resolved being what resolveImport
\* made of the specifier
defaultResolveImportPath(resolved) ==
  IF resolved = "throws"
  THEN [error |-> "ResolveError", filePath |-> Undefined, threw |-> FALSE, url |-> resolved]
  ELSE IF StartsWith(resolved, "node:")
  THEN [error |-> "node imports are not supported", filePath |-> Undefined, threw |-> FALSE,
        url |-> resolved]
  ELSE IF ~StartsWith(resolved, "file:")
  THEN [error |-> "only file imports are supported", filePath |-> Undefined, threw |-> FALSE,
        url |-> resolved]
  ELSE [error |-> Undefined, filePath |-> fileURLToPath(resolved).path,
        threw |-> fileURLToPath(resolved).threw, url |-> resolved]

\* resolveImportPath of src/unnamed/part_000: no test of the scheme
inlineResolveImportPath(resolved) ==
  IF resolved = "throws"
  THEN [error |-> "ResolveError", filePath |-> Undefined, threw |-> FALSE, url |-> resolved]
  ELSE [error |-> Undefined, filePath |-> fileURLToPath(resolved).path,
        threw |-> fileURLToPath(resolved).threw, url |-> resolved]

\* the router's test for a script request
isScript(url) == \E i \in DOMAIN fileEndings : EndsWith(url, fileEndings[i])

\* the four callbacks the router hands to server.handleRequest, by the status each
\* one sends on res
handleRedirect(res) == Append(res, 302)
handleContent(res) == Append(res, 200)
handleFileNotFound(res) == Append(res, 404)
handleInternalError(res) == Append(res, 500)

(***************************************************************************)
(* State                                                                   *)
(***************************************************************************)

VARIABLES
  transpileCache,    \* the LRUCache of transpiled code, least recently used first
  analyzeCache,      \* the LRUCache of analysis results
  req,               \* per request: where it is (pc) and what it holds
  transpileRecency,  \* history: the keys transpileCache has held, by their last access
  lastCall           \* history: the maybeTranspile call that completed last

vars == << transpileCache, analyzeCache, req, transpileRecency, lastCall >>

\* no call of maybeTranspile has settled for the request
NoTranspile == [result |-> NoTranspileResult, threw |-> FALSE]

\* a request slot with no request in it
IdleReq ==
  [code |-> Undefined, filePath |-> Undefined, hash |-> Undefined, res |-> <<>>,
   pc |-> "idle", transpile |-> NoTranspile, read |-> NoRead, analyzerInvoked |-> FALSE,
   resolution |-> NoResolution]

\* a request the router is done with: answered, handed to express.static, or failed
\* by an error raised out of the handler
Terminal == {"responded", "static", "thrown"}

\* no call of maybeTranspile has completed yet
NoCall ==
  [code |-> Undefined, filePath |-> Undefined, result |-> NoTranspileResult, threw |-> FALSE,
   invoked |-> FALSE, previous |-> Undefined]

\* history of accesses: the keys a cache has held, by their last access (a hit
\* of get, or a set that stored), the latest last; a key whose entry a set
\* deleted without storing is dropped
RECURSIVE Forgotten(_, _)
Forgotten(recency, key) ==
  IF recency = <<>> THEN <<>>
  ELSE IF Head(recency) = key THEN Forgotten(Tail(recency), key)
  ELSE <<Head(recency)>> \o Forgotten(Tail(recency), key)
Accessed(recency, key) == Forgotten(recency, key) \o << key >>
AfterSet(recency, key, cache) ==
  IF key \in LRUKeys(cache) THEN Accessed(recency, key) ELSE Forgotten(recency, key)

Init ==
  /\ transpileCache = <<>>
  /\ analyzeCache = <<>>
  /\ req = [r \in Reqs |-> IdleReq]
  /\ transpileRecency = <<>>
  /\ lastCall = NoCall

(***************************************************************************)
(* The router's middleware                                                 *)
(***************************************************************************)

\* a handler without the return after server.handleRequest: the script request
\* goes on to next() as well, and express.static answers it too
routerUseNoReturn(method, url) ==
  IF method = "HEAD" THEN [IdleReq EXCEPT !.pc = "thrown"]
  ELSE IF \E i \in DOMAIN fileEndings : EndsWith(url, fileEndings[i])
  THEN [IdleReq EXCEPT !.pc = "core", !.res = <<200>>]
  ELSE [IdleReq EXCEPT !.pc = "static"]

\* a handler that classifies first and refuses HEAD for script requests only
routerUseHeadAfterClassification(method, url) ==
  IF ~isScript(url) THEN [IdleReq EXCEPT !.pc = "static"]
  ELSE IF method = "HEAD" THEN [IdleReq EXCEPT !.pc = "thrown"]
  ELSE [IdleReq EXCEPT !.pc = "core"]

\* router.use((req, res, next) => ...): a HEAD request makes it throw; a script
\* request goes to server.handleRequest; any other to next(), express.static
routerUse(method, url) ==
  IF method = "HEAD" THEN [IdleReq EXCEPT !.pc = "thrown"]
  ELSE IF isScript(url) THEN [IdleReq EXCEPT !.pc = "core"]
  ELSE [IdleReq EXCEPT !.pc = "static"]

Receive(r, method, url) ==
  /\ req[r].pc = "idle"
  /\ req' = [req EXCEPT ![r] = routerUse(method, url)]
  /\ UNCHANGED << transpileCache, analyzeCache, transpileRecency, lastCall >>

(***************************************************************************)
(* The debug core's steps, and the callbacks it calls                      *)
(***************************************************************************)

\* the core answers with a redirect to the canonical uri
CoreRedirect(r) ==
  /\ req[r].pc = "core"
  /\ req' = [req EXCEPT ![r] = [IdleReq EXCEPT !.pc = "responded", !.res = handleRedirect(req[r].res)]]
  /\ UNCHANGED << transpileCache, analyzeCache, transpileRecency, lastCall >>

\* the core calls tryReadScriptAsString({ filePath }), which awaits readFile
CoreRead(r, filePath) ==
  /\ req[r].pc = "core"
  /\ req' = [req EXCEPT ![r] = [@ EXCEPT !.pc = "reading", !.filePath = filePath]]
  /\ UNCHANGED << transpileCache, analyzeCache, transpileRecency, lastCall >>

\* a tryReadScriptAsString that goes on after readFile only while no call of the
\* transpiler is pending, the calls of maybeTranspile being serialized
ReadDoneSerialized(r, outcome) ==
  /\ req[r].pc = "reading"
  /\ \A other \in Reqs : req[other].pc # "transpiling"
  /\ IF outcome \in ReadErrorCodes
     THEN /\ req' = [req EXCEPT ![r] = [@ EXCEPT !.pc = "read_done", !.filePath = Undefined,
                                                  !.read = readFailed(outcome)]]
          /\ UNCHANGED << transpileCache, transpileRecency >>
     ELSE LET m == maybeTranspileStart(transpileCache, req[r].filePath, outcome)
          IN  /\ transpileCache' = m.cache
              /\ transpileRecency' =
                   IF m.hash # Undefined /\ ~m.await
                   THEN Accessed(transpileRecency, m.hash)
                   ELSE transpileRecency
              /\ req' = [req EXCEPT ![r] =
                           IF m.await
                           THEN [@ EXCEPT !.pc = "transpiling", !.code = outcome, !.hash = m.hash]
                           ELSE [@ EXCEPT !.pc = "transpiled", !.code = outcome,
                                          !.transpile = [result |-> m.result,
                                                         threw |-> FALSE]]]
  /\ UNCHANGED << analyzeCache >>

\* a tryReadScriptAsString that calls maybeTranspile before it looks at the error
\* of readFile
ReadDoneTranspilesFirst(r, outcome) ==
  /\ req[r].pc = "reading"
  /\ IF outcome \in ReadErrorCodes
     THEN /\ req' = [req EXCEPT ![r] = [@ EXCEPT !.pc = "transpiling"]]
          /\ UNCHANGED << transpileCache, transpileRecency >>
     ELSE LET m == maybeTranspileStart(transpileCache, req[r].filePath, outcome)
          IN  /\ transpileCache' = m.cache
              /\ transpileRecency' =
                   IF m.hash # Undefined /\ ~m.await
                   THEN Accessed(transpileRecency, m.hash)
                   ELSE transpileRecency
              /\ req' = [req EXCEPT ![r] =
                           IF m.await
                           THEN [@ EXCEPT !.pc = "transpiling", !.code = outcome, !.hash = m.hash]
                           ELSE [@ EXCEPT !.pc = "transpiled", !.code = outcome,
                                          !.transpile = [result |-> m.result,
                                                         threw |-> FALSE]]]
  /\ UNCHANGED << analyzeCache >>

\* readFile settles: tryReadScriptAsString returns the read error, or enters
\* maybeTranspile, which settles at once (tryReadScriptAsString, awaiting it, goes
\* on in a later turn) or awaits the transpiler
ReadDone(r, outcome) ==
  /\ req[r].pc = "reading"
  /\ IF outcome \in ReadErrorCodes
     THEN /\ req' = [req EXCEPT ![r] = [@ EXCEPT !.pc = "read_done", !.filePath = Undefined,
                                                  !.read = readFailed(outcome)]]
          /\ UNCHANGED << transpileCache, transpileRecency >>
     ELSE LET m == maybeTranspileStart(transpileCache, req[r].filePath, outcome)
          IN  /\ transpileCache' = m.cache
              /\ transpileRecency' =
                   IF m.hash # Undefined /\ ~m.await
                   THEN Accessed(transpileRecency, m.hash)
                   ELSE transpileRecency
              /\ req' = [req EXCEPT ![r] =
                           IF m.await
                           THEN [@ EXCEPT !.pc = "transpiling", !.code = outcome, !.hash = m.hash]
                           ELSE [@ EXCEPT !.pc = "transpiled", !.code = outcome,
                                          !.transpile = [result |-> m.result,
                                                         threw |-> FALSE]]]
  /\ UNCHANGED << analyzeCache >>

\* the transpiler settles: maybeTranspile returns or raises;
\* tryReadScriptAsString, awaiting it, goes on in a later turn
TranspileDone(r, outcome) ==
  /\ req[r].pc = "transpiling"
  /\ LET m == maybeTranspileResume(transpileCache, req[r].hash, req[r].code, outcome)
     IN  /\ transpileCache' = m.cache
         /\ transpileRecency' =
              IF ~m.threw /\ m.result.error = Undefined
              THEN AfterSet(transpileRecency, req[r].hash, m.cache)
              ELSE transpileRecency
         /\ req' = [req EXCEPT ![r] =
                      [IdleReq EXCEPT !.pc = "transpiled", !.filePath = req[r].filePath,
                                      !.code = IF ~m.threw /\ m.result.error = Undefined
                                               THEN req[r].code ELSE Undefined,
                                      !.transpile = [result |-> m.result, threw |-> m.threw]]]
  /\ UNCHANGED << analyzeCache >>

\* tryReadScriptAsString goes on after its await of maybeTranspile: what
\* maybeTranspile raised is raised out of it, an error it returned is returned as
\* a read error, a string as the content
ReadReturn(r) ==
  /\ req[r].pc = "transpiled"
  /\ req' = [req EXCEPT ![r] =
               IF req[r].transpile.threw THEN [IdleReq EXCEPT !.pc = "rejected"]
               ELSE [IdleReq EXCEPT !.pc = "read_done", !.filePath = req[r].filePath,
                                    !.code = req[r].code,
                                    !.read = readTranspiled(req[r].transpile.result)]]
  /\ UNCHANGED << transpileCache, analyzeCache, transpileRecency, lastCall >>

\* tryReadScriptAsString of src/unnamed/part_000 when readFile settles
InlineReadDone(r, outcome) ==
  /\ req[r].pc = "reading"
  /\ IF outcome \in ReadErrorCodes
     THEN /\ req' = [req EXCEPT ![r] = [@ EXCEPT !.pc = "read_done", !.filePath = Undefined,
                                                  !.read = inlineReadFailed(outcome)]]
          /\ UNCHANGED << transpileCache, transpileRecency >>
     ELSE LET m == maybeTranspileStart(transpileCache, req[r].filePath, outcome)
          IN  /\ transpileCache' = m.cache
              /\ transpileRecency' =
                   IF m.hash # Undefined /\ ~m.await
                   THEN Accessed(transpileRecency, m.hash)
                   ELSE transpileRecency
              /\ req' = [req EXCEPT ![r] =
                           IF m.await
                           THEN [@ EXCEPT !.pc = "transpiling", !.code = outcome, !.hash = m.hash]
                           ELSE [@ EXCEPT !.pc = "transpiled", !.code = outcome,
                                          !.transpile = [result |-> m.result,
                                                         threw |-> FALSE]]]
  /\ UNCHANGED << analyzeCache >>

\* tryReadScriptAsString of src/unnamed/part_000 after its await of maybeTranspile
InlineReadReturn(r) ==
  /\ req[r].pc = "transpiled"
  /\ req' = [req EXCEPT ![r] =
               IF req[r].transpile.threw THEN [IdleReq EXCEPT !.pc = "rejected"]
               ELSE [IdleReq EXCEPT !.pc = "read_done", !.filePath = req[r].filePath,
                                    !.code = req[r].code,
                                    !.read = inlineReadTranspiled(req[r].transpile.result)]]
  /\ UNCHANGED << transpileCache, analyzeCache, transpileRecency, lastCall >>

\* history: the path of the call before a call on filePath with code, if that
\* call was on a file to transpile, with the same code, and returned a string
PreviousPath(filePath, code) ==
  IF /\ lastCall.code = code
     /\ lastCall.result.transpiled # Undefined
     /\ ~(EndsWith(lastCall.filePath, ".js") \/ EndsWith(lastCall.filePath, ".mjs"))
     /\ ~(EndsWith(filePath, ".js") \/ EndsWith(filePath, ".mjs"))
  THEN lastCall.filePath
  ELSE Undefined

\* history: the call of maybeTranspile that ReadDone(r, outcome) completes, if any
CallAtReadDone(r, outcome) ==
  IF outcome \in ReadErrorCodes \/ req'[r].pc = "transpiling" THEN lastCall
  ELSE [code |-> outcome, filePath |-> req[r].filePath,
        result |-> maybeTranspileStart(transpileCache, req[r].filePath, outcome).result,
        threw |-> FALSE, invoked |-> FALSE,
        previous |-> PreviousPath(req[r].filePath, outcome)]

\* history: the call of maybeTranspile that TranspileDone(r, outcome) completes
CallAtTranspileDone(r, outcome) ==
  LET m == maybeTranspileResume(transpileCache, req[r].hash, req[r].code, outcome)
  IN  [code |-> req[r].code, filePath |-> req[r].filePath, result |-> m.result,
       threw |-> m.threw, invoked |-> TRUE,
       previous |-> PreviousPath(req[r].filePath, req[r].code)]

\* tryReadScriptAsString returned an error: the core reports the missing file or
\* the internal error
CoreReadFailed(r) ==
  /\ req[r].pc = "read_done"
  /\ req[r].read.error # NoReadError
  /\ req' = [req EXCEPT ![r] = [IdleReq EXCEPT !.pc = "responded", !.read = req[r].read, !.res =
               IF req[r].read.error.code = "FILE_NOT_FOUND"
               THEN handleFileNotFound(req[r].res)
               ELSE handleInternalError(req[r].res)]]
  /\ UNCHANGED << transpileCache, analyzeCache, transpileRecency, lastCall >>

\* tryReadScriptAsString returned content: the core calls analyzeCode({ code })
CoreAnalyze(r, outcome) ==
  /\ req[r].pc = "read_done"
  /\ req[r].read.error = NoReadError
  /\ LET a == analyzeCode(analyzeCache, req[r].read.content, outcome)
     IN  /\ analyzeCache' = a.cache
         /\ req' = [req EXCEPT ![r] =
                      IF a.error # Undefined
                      THEN [IdleReq EXCEPT !.pc = "responded", !.read = req[r].read,
                                           !.analyzerInvoked = a.invoked,
                                           !.res = handleInternalError(req[r].res)]
                      ELSE [IdleReq EXCEPT !.pc = "analyzed", !.read = req[r].read,
                                           !.analyzerInvoked = a.invoked, !.res = req[r].res]]
  /\ UNCHANGED << transpileCache, transpileRecency, lastCall >>

\* the analyzed code has no import left to resolve: the core sends the content
CoreContent(r) ==
  /\ req[r].pc = "analyzed"
  /\ req' = [req EXCEPT ![r] = [IdleReq EXCEPT !.pc = "responded", !.res = handleContent(req[r].res)]]
  /\ UNCHANGED << transpileCache, analyzeCache, transpileRecency, lastCall >>

\* the core calls resolveImportPath({ importer, specifier }), which is awaited
CoreResolve(r) ==
  /\ req[r].pc = "analyzed"
  /\ req' = [req EXCEPT ![r] = [IdleReq EXCEPT !.pc = "resolving", !.res = req[r].res]]
  /\ UNCHANGED << transpileCache, analyzeCache, transpileRecency, lastCall >>

\* resolveImportPath settles with resolution: it returned, or it raised
Resolved(r, resolution) ==
  /\ req[r].pc = "resolving"
  /\ req' = [req EXCEPT ![r] =
               [@ EXCEPT !.pc = IF resolution.threw THEN "rejected" ELSE "resolved",
                         !.resolution = resolution]]
  /\ UNCHANGED << transpileCache, analyzeCache, transpileRecency, lastCall >>

\* the router of src/lib/index.ts, with its default resolveImportPath
ResolveDone(r, resolved) == Resolved(r, defaultResolveImportPath(resolved))

\* the router of src/unnamed/part_000
InlineResolveDone(r, resolved) == Resolved(r, inlineResolveImportPath(resolved))

\* resolveImportPath returned: the core reports the error or sends the content
CoreAfterResolve(r) ==
  /\ req[r].pc = "resolved"
  /\ req' = [req EXCEPT ![r] = [IdleReq EXCEPT !.pc = "responded",
               !.resolution = req[r].resolution, !.res =
               IF req[r].resolution.error # Undefined
               THEN handleInternalError(req[r].res)
               ELSE handleContent(req[r].res)]]
  /\ UNCHANGED << transpileCache, analyzeCache, transpileRecency, lastCall >>

\* a callback raised: the core, which gives back exactly one of the four
\* outcomes, reports an internal error
CoreOnRejection(r) ==
  /\ req[r].pc = "rejected"
  /\ req' = [req EXCEPT ![r] = [IdleReq EXCEPT !.pc = "responded", !.res = handleInternalError(req[r].res)]]
  /\ UNCHANGED << transpileCache, analyzeCache, transpileRecency, lastCall >>

\* the request is over; its slot takes the next request
Finish(r) ==
  /\ req[r].pc \in Terminal
  /\ req' = [req EXCEPT ![r] = IdleReq]
  /\ UNCHANGED << transpileCache, analyzeCache, transpileRecency, lastCall >>

\* a step of the debug core for request r
CoreStep(r) ==
  \/ CoreRedirect(r)
  \/ \E filePath \in FilePaths : CoreRead(r, filePath)
  \/ CoreReadFailed(r)
  \/ \E outcome \in AnalyzerOutcomes : CoreAnalyze(r, outcome)
  \/ CoreContent(r)
  \/ CoreResolve(r)
  \/ CoreAfterResolve(r)

\* readFile, or the transpiler, settles for an awaited call of
\* tryReadScriptAsString
ReadStep(r) ==
  \/ \E outcome \in Contents \cup ReadErrorCodes : ReadDone(r, outcome)
  \/ \E outcome \in TranspilerOutcomes : TranspileDone(r, outcome)

Next ==
  \E r \in Reqs :
    \/ \E method \in Methods, url \in Urls : Receive(r, method, url)
    \/ CoreStep(r)
    \/ ReadStep(r) /\ UNCHANGED lastCall
    \/ ReadReturn(r)
    \/ \E resolved \in ResolveOutcomes : ResolveDone(r, resolved)
    \/ CoreOnRejection(r)
    \/ Finish(r)

Spec == Init /\ [][Next]_vars

\* readFile settles for request r
ReadFileStep(r) ==
  \E outcome \in Contents \cup ReadErrorCodes : ReadDone(r, outcome) /\ UNCHANGED lastCall

\* the transpiler call of request r settles
TranspilerStep(r) ==
  \E outcome \in TranspilerOutcomes : TranspileDone(r, outcome) /\ UNCHANGED lastCall

\* defaultResolveImportPath, which awaits nothing, settles for request r
ResolveStep(r) == \E resolved \in ResolveOutcomes : ResolveDone(r, resolved)

\* the debug core goes on with a request whenever it can, and answers a request
\* whose callback raised; tryReadScriptAsString goes on once maybeTranspile has
\* settled; defaultResolveImportPath settles. readFile and the external
\* transpiler, both awaited without a timeout, need not return
FairSpec ==
  /\ Spec
  /\ \A r \in Reqs : WF_vars(CoreStep(r))
  /\ \A r \in Reqs : WF_vars(CoreOnRejection(r))
  /\ \A r \in Reqs : WF_vars(ReadReturn(r))
  /\ \A r \in Reqs : WF_vars(ResolveStep(r))

\* the router of src/unnamed/part_000
InlineReadStep(r) ==
  \/ \E outcome \in Contents \cup ReadErrorCodes : InlineReadDone(r, outcome)
  \/ \E outcome \in TranspilerOutcomes : TranspileDone(r, outcome)

InlineNext ==
  \E r \in Reqs :
    \/ \E method \in Methods, url \in Urls : Receive(r, method, url)
    \/ CoreStep(r)
    \/ InlineReadStep(r) /\ UNCHANGED lastCall
    \/ InlineReadReturn(r)
    \/ \E resolved \in ResolveOutcomes : InlineResolveDone(r, resolved)
    \/ CoreOnRejection(r)
    \/ Finish(r)

SpecInlineResolver == Init /\ [][InlineNext]_vars

\* requests served one at a time: a request is received when no other is in
\* flight; lastCall is the call of maybeTranspile that completed last
Alone(r) == \A other \in Reqs \ {r} : req[other].pc = "idle"

SequentialNext ==
  \E r \in Reqs :
    \/ \E method \in Methods, url \in Urls : Alone(r) /\ Receive(r, method, url)
    \/ CoreStep(r)
    \/ \E outcome \in Contents \cup ReadErrorCodes :
         ReadDone(r, outcome) /\ lastCall' = CallAtReadDone(r, outcome)
    \/ \E outcome \in TranspilerOutcomes :
         TranspileDone(r, outcome) /\ lastCall' = CallAtTranspileDone(r, outcome)
    \/ ReadReturn(r)
    \/ \E resolved \in ResolveOutcomes : ResolveDone(r, resolved)
    \/ CoreOnRejection(r)
    \/ Finish(r)

SequentialSpec == Init /\ [][SequentialNext]_vars

\* the router given a transpiler whose output for one code may differ from call
\* to call
VariantReadStep(r) ==
  \/ \E outcome \in Contents \cup ReadErrorCodes : ReadDone(r, outcome)
  \/ \E outcome \in VariantTranspilerOutcomes : TranspileDone(r, outcome)

VariantNext ==
  \E r \in Reqs :
    \/ \E method \in Methods, url \in Urls : Receive(r, method, url)
    \/ CoreStep(r)
    \/ VariantReadStep(r) /\ UNCHANGED lastCall
    \/ ReadReturn(r)
    \/ \E resolved \in ResolveOutcomes : ResolveDone(r, resolved)
    \/ CoreOnRejection(r)
    \/ Finish(r)

SpecVariantTranspiler == Init /\ [][VariantNext]_vars

\* the calls request Stalled awaits (readFile, the transpiler) may never return;
\* those of every other request return
Stalled == 1

StalledSpec ==
  /\ FairSpec
  /\ \A r \in Reqs \ {Stalled} : WF_vars(ReadFileStep(r))
  /\ \A r \in Reqs \ {Stalled} : WF_vars(TranspilerStep(r))
(***************************************************************************)
(* Properties of maybeTranspile                                            *)
(***************************************************************************)

\* a file maybeTranspile is to transpile: its path ends in neither .js nor .mjs
ToTranspile(filePath) == ~(EndsWith(filePath, ".js") \/ EndsWith(filePath, ".mjs"))

\* request r is about to call maybeTranspile on a file to transpile, with the code
\* the call before it, also on a file to transpile, has returned a string for
SecondInSequence(r, code) ==
  /\ req[r].pc = "reading"
  /\ ToTranspile(req[r].filePath)
  /\ lastCall.code = code
  /\ ToTranspile(lastCall.filePath)
  /\ lastCall.result.transpiled # Undefined

\* the entry of the string the call before has returned is within the budget
LastCallFits ==
  Len(md5(lastCall.code)) + Len(lastCall.result.transpiled) <= maxTranspileCacheSize

\* C1 as stated: the second of two calls in sequence with the same content on a
\* file to transpile does not invoke the transpiler when the first did, and where
\* it returns at once it returns the string the first returned, whatever the
\* content.
C1_SecondCallNeverTranspiles ==
  [][\A r \in Reqs, code \in Contents :
       (SecondInSequence(r, code) /\ ReadDone(r, code)) =>
         /\ lastCall.invoked => req'[r].pc # "transpiling"
         /\ req'[r].pc = "transpiled" =>
              req'[r].transpile.result.transpiled = lastCall.result.transpiled]_vars

\* C1, amended: when the entry of the string the first call returned is within
\* maxTranspileCacheSize, the second call in sequence with the same content on a
\* file to transpile does not invoke the transpiler and returns the string the
\* first call returned.
C1_SecondCallHitsWhenStored ==
  [][\A r \in Reqs, code \in Contents :
       (SecondInSequence(r, code) /\ LastCallFits /\ ReadDone(r, code)) =>
         /\ req'[r].pc = "transpiled"
         /\ req'[r].transpile = [result |-> lastCall.result, threw |-> FALSE]
         /\ lastCall.result.error = Undefined
         /\ lastCall'.invoked = FALSE
         /\ lastCall'.result = lastCall.result]_vars

\* the second call in sequence has returned the cached string of the first, and
\* tryReadScriptAsString has returned it as the content
C1_Witness ==
  /\ lastCall.previous # Undefined
  /\ ~lastCall.invoked
  /\ lastCall.result.transpiled = transpiledCode(lastCall.code)
  /\ \E r \in Reqs : req[r].pc = "read_done" /\ req[r].read.content = lastCall.result.transpiled

\* C2: when the transpiler fails, maybeTranspile returns an error, leaves the
\* transpile cache as it was, with no entry under the digest of the content, and
\* the next call with the same content on a file to transpile invokes the
\* transpiler again.
C2_FailureNotCached ==
  [][\A r \in Reqs :
       /\ TranspileDone(r, "throws") =>
            /\ lastCall'.result = [error |-> TranspileError, transpiled |-> Undefined]
            /\ req'[r].pc = "transpiled"
            /\ req'[r].transpile = [result |-> lastCall'.result, threw |-> FALSE]
            /\ transpileCache' = transpileCache
            /\ md5(req[r].code) \notin LRUKeys(transpileCache')
       /\ \A code \in Contents :
            ( /\ lastCall.result.error # Undefined
              /\ lastCall.code = code
              /\ req[r].pc = "reading"
              /\ ToTranspile(req[r].filePath)
              /\ ReadDone(r, code) ) => req'[r].pc = "transpiling"]_vars

\* after a failed call, the next call with the same content awaits the transpiler
C2_Witness ==
  /\ lastCall.result.error = TranspileError
  /\ lastCall.invoked
  /\ transpileCache # <<>>
  /\ md5(lastCall.code) \notin LRUKeys(transpileCache)
  /\ \E r \in Reqs : req[r].pc = "transpiling" /\ req[r].code = lastCall.code

\* C3: a call of maybeTranspile on a path ending in .js or .mjs returns the code
\* it was given, does not invoke the transpiler, and leaves the transpile cache
\* and the order of its accesses as they were, whatever the cache holds.
C3_NativePassThrough ==
  [][\A r \in Reqs, code \in Contents :
       (req[r].pc = "reading" /\ ~ToTranspile(req[r].filePath) /\ ReadDone(r, code)) =>
         /\ req'[r].pc = "transpiled"
         /\ req'[r].transpile = [result |-> [error |-> Undefined, transpiled |-> code],
                                 threw |-> FALSE]
         /\ transpileCache' = transpileCache
         /\ transpileRecency' = transpileRecency]_vars

\* a .mjs file was passed through while the cache holds an entry under the digest
\* of its content that is not the most recently used one
C3_Witness ==
  \E r \in Reqs :
    /\ req[r].pc = "read_done"
    /\ EndsWith(req[r].filePath, ".mjs")
    /\ req[r].read.content \in Contents
    /\ md5(req[r].read.content) \in LRUKeys(transpileCache)
    /\ transpileCache[Len(transpileCache)].key # md5(req[r].read.content)

\* the cache holds at most one entry for the output of a content
OneEntryPerContent ==
  \A code \in Contents :
    Cardinality({i \in DOMAIN transpileCache :
                   transpileCache[i].value = transpiledCode(code)}) <= 1

\* C4: the key depends on the content alone: after a call has succeeded for a
\* content under one path, the next call with the same content under another
\* path to transpile hits the one entry of that content (its entry being within
\* the budget, it is retained) and does not invoke the transpiler; the cache
\* holds at most one entry for a content.
C4_KeyIsContentOnly ==
  /\ []OneEntryPerContent
  /\ [][\A r \in Reqs, code \in Contents :
          ( /\ SecondInSequence(r, code)
            /\ LastCallFits
            /\ req[r].filePath # lastCall.filePath
            /\ ReadDone(r, code) ) =>
              /\ req'[r].pc = "transpiled"
              /\ req'[r].transpile.result.transpiled = lastCall.result.transpiled
              /\ LRUKeys(transpileCache') = LRUKeys(transpileCache)
              /\ transpileCache'[Len(transpileCache')].value = lastCall.result.transpiled]_vars

\* a call under one path was a hit on the entry a call under another path stored
C4_Witness ==
  /\ lastCall.previous # Undefined
  /\ lastCall.previous # lastCall.filePath
  /\ ~lastCall.invoked
  /\ Cardinality({i \in DOMAIN transpileCache :
                    transpileCache[i].value = lastCall.result.transpiled}) = 1

(***************************************************************************)
(* Properties of the caches                                                *)
(***************************************************************************)

\* the sum over the entries of a cache of key length plus value length
RECURSIVE AccountedSize(_)
AccountedSize(cache) ==
  IF cache = <<>> THEN 0
  ELSE Len(Head(cache).key) + Len(Head(cache).value) + AccountedSize(Tail(cache))

\* C5: in every reachable state the accounted sizes (key length plus value
\* length) of the entries of the transpile cache sum to at most
\* maxTranspileCacheSize, and those of the analysis cache to at most
\* maxAnalyzeCacheSize.
C5_WithinBudget ==
  /\ AccountedSize(transpileCache) <= maxTranspileCacheSize
  /\ AccountedSize(analyzeCache) <= maxAnalyzeCacheSize

\* each cache holds entries no further entry fits beside, the transpile cache
\* after evicting a key it has held
C5_Witness ==
  /\ Len(transpileCache) = 2
  /\ AccountedSize(transpileCache) + Len(md5("a")) + Len(transpiledCode("a")) > maxTranspileCacheSize
  /\ \E i \in DOMAIN transpileRecency : transpileRecency[i] \notin LRUKeys(transpileCache)
  /\ Len(analyzeCache) = 1
  /\ AccountedSize(analyzeCache) + Len(md5("a")) + Len(analyzedResult("a")) > maxAnalyzeCacheSize

\* C6: eviction follows the order of the last accesses, a hit of get and a set
\* both counting: no key the transpile cache has evicted was accessed more
\* recently than a key it holds, and it holds its entries in the order of their
\* last accesses.
C6_EvictsLeastRecentlyUsed ==
  /\ \A i, j \in DOMAIN transpileRecency :
       ( /\ transpileRecency[i] \notin LRUKeys(transpileCache)
         /\ transpileRecency[j] \in LRUKeys(transpileCache) ) => i < j
  /\ \A i, j \in DOMAIN transpileCache :
       i < j => \E m, n \in DOMAIN transpileRecency :
                  /\ m < n
                  /\ transpileRecency[m] = transpileCache[i].key
                  /\ transpileRecency[n] = transpileCache[j].key

\* a set has evicted the key accessed first and kept the two accessed after it
C6_Witness ==
  /\ Len(transpileRecency) = 3
  /\ transpileRecency[1] \notin LRUKeys(transpileCache)
  /\ transpileCache # <<>>
  /\ << transpileRecency[2], transpileRecency[3] >> =
       [i \in DOMAIN transpileCache |-> transpileCache[i].key]

(***************************************************************************)
(* Properties of the callbacks and of the router                           *)
(***************************************************************************)

\* C7: resolveImportPath returns a filePath only for a target of the file
\* scheme; for a node: target or one of any other scheme it returns an error and
\* no filePath, and it returns, it does not raise.
C7_ErrorAsValue ==
  \A r \in Reqs :
    req[r].resolution # NoResolution =>
      /\ req[r].resolution.filePath # Undefined => StartsWith(req[r].resolution.url, "file:")
      /\ ( /\ req[r].resolution.url # "throws"
           /\ ~StartsWith(req[r].resolution.url, "file:") ) =>
             /\ ~req[r].resolution.threw
             /\ req[r].resolution.error # Undefined
             /\ req[r].resolution.filePath = Undefined

\* C8: tryReadScriptAsString reports FILE_NOT_FOUND exactly when readFile failed
\* with ENOENT and IO_ERROR for every other failure of readFile and for a failure
\* of the transpiler; the response to a missing file is 404, to any other such
\* failure 500.
C8_ReadErrorTaxonomy ==
  \A r \in Reqs :
    (req[r].pc \in {"read_done", "responded"} /\ req[r].read.error # NoReadError) =>
      /\ req[r].read.error.cause \in ReadErrorCodes \cup {TranspileError}
      /\ req[r].read.error.code = "FILE_NOT_FOUND" <=> req[r].read.error.cause = "ENOENT"
      /\ req[r].read.error.code = "IO_ERROR" <=> req[r].read.error.cause # "ENOENT"
      /\ req[r].read.content = Undefined
      /\ req[r].pc = "responded" =>
           req[r].res = IF req[r].read.error.cause = "ENOENT" THEN <<404>> ELSE <<500>>

\* a missing file was answered with 404 and a failure of the transpiler with 500
C8_Witness ==
  \E r1, r2 \in Reqs :
    /\ req[r1].pc = "responded"
    /\ req[r1].read.error = [code |-> "FILE_NOT_FOUND", cause |-> "ENOENT"]
    /\ req[r1].res = <<404>>
    /\ req[r2].pc = "responded"
    /\ req[r2].read.error = [code |-> "IO_ERROR", cause |-> TranspileError]
    /\ req[r2].res = <<500>>

\* C9: a request goes to the debug core only if its path ends with one of
\* fileEndings, and then it does (a HEAD request for a script path, which the
\* router refuses, set aside); every request for another path goes on to
\* express.static and touches neither the core nor a cache.
C9_ClassifiedByPathAlone ==
  [][\A r \in Reqs, method \in Methods, url \in Urls :
       Receive(r, method, url) =>
         /\ req'[r].pc = "core" => isScript(url)
         /\ (isScript(url) /\ method # "HEAD") => req'[r].pc = "core"
         /\ ~isScript(url) =>
              /\ req'[r].pc = "static"
              /\ UNCHANGED << transpileCache, analyzeCache >>]_vars

\* C10 as stated: every request that enters script handling receives an outcome.
C10_AlwaysAnOutcome ==
  \A r \in Reqs : (req[r].pc = "core") ~> (req[r].pc = "responded")

\* C10, amended: a request in script handling receives at most one of the four
\* outcomes, is in its responded state exactly when it has received one, and
\* receives nothing after it; it receives one, except that a request whose
\* file read or transpiler call never returns stays pending for good and
\* receives none.
C10_AtMostOneOutcome ==
  /\ [](\A r \in Reqs :
          /\ req[r].res \in {<<>>, <<302>>, <<200>>, <<404>>, <<500>>}
          /\ req[r].pc = "responded" <=> req[r].res # <<>>)
  /\ [][\A r \in Reqs :
          req[r].pc = "responded" =>
            \/ req'[r] = req[r]
            \/ req'[r] = IdleReq]_vars
  /\ \A r \in Reqs :
       (req[r].pc = "core") ~>
         \/ req[r].pc = "responded"
         \/ <>[](req[r].pc = "reading")
         \/ <>[](req[r].pc = "transpiling")

\* a request has gone through read, transpile, analysis and resolution and has
\* its one outcome
C10_Witness ==
  \E r \in Reqs :
    /\ req[r].pc = "responded"
    /\ req[r].res = <<200>>
    /\ req[r].resolution.filePath # Undefined


(***************************************************************************)
(* The analysis cache on a failure of the analyzer                         *)
(***************************************************************************)

\* request r holds content that analyzeCode has no entry for
AnalysisMiss(r) ==
  /\ req[r].pc = "read_done"
  /\ req[r].read.error = NoReadError
  /\ md5(req[r].read.content) \notin LRUKeys(analyzeCache)

\* request r was answered with an internal error because the analyzer failed on
\* the content it still holds
AnalysisFailed(r) ==
  /\ req[r].pc = "responded"
  /\ req[r].analyzerInvoked
  /\ req[r].read.content # Undefined
  /\ req[r].res = << 500 >>

\* C11: when the analyzer fails on code C, analyzeCode returns the error (the
\* core answers with an internal error), the analysis cache is left as it was,
\* with no entry under C's digest, and a call of analyzeCode that finds no entry
\* under C's digest, as every later call with C does until some call succeeds,
\* invokes the analyzer again
C11_AnalyzerFailureNotCached ==
  [][\A r \in Reqs :
       AnalysisMiss(r) =>
         /\ CoreAnalyze(r, "error") =>
              /\ req'[r].pc = "responded"
              /\ req'[r].res = handleInternalError(req[r].res)
              /\ analyzeCache' = analyzeCache
              /\ md5(req[r].read.content) \notin LRUKeys(analyzeCache')
         /\ \A outcome \in AnalyzerOutcomes :
              CoreAnalyze(r, outcome) => req'[r].analyzerInvoked]_vars

\* the analyzer failed on the same content for two requests, one call after the
\* other, and the content has no entry
C11_Witness ==
  \E r1, r2 \in Reqs :
    /\ r1 # r2
    /\ AnalysisFailed(r1)
    /\ AnalysisFailed(r2)
    /\ req[r1].read.content = req[r2].read.content
    /\ md5(req[r1].read.content) \notin LRUKeys(analyzeCache)

(***************************************************************************)
(* Concurrent calls of maybeTranspile                                      *)
(***************************************************************************)

\* request r has returned from tryReadScriptAsString with the content of a file
\* that is not native
ReadTranspiled(r) ==
  /\ req[r].pc = "read_done"
  /\ req[r].read.error = NoReadError
  /\ ToTranspile(req[r].filePath)

\* C12: two calls of maybeTranspile in flight with the same digest, both having
\* missed, each invoke the transpiler: the second call awaits the transpiler
\* although the first is awaiting it for the same digest, and each call writes
\* what it was given when it completes, so that the value found under the digest
\* afterwards is the one written by the call that completed last
C12_ConcurrentMissesBothWrite ==
  [][\A r \in Reqs :
       /\ \A code \in Contents :
            ( /\ req[r].pc = "reading"
              /\ ToTranspile(req[r].filePath)
              /\ md5(code) \notin LRUKeys(transpileCache)
              /\ \E other \in Reqs \ {r} :
                   req[other].pc = "transpiling" /\ req[other].hash = md5(code)
              /\ ReadDone(r, code) )
            => /\ req'[r].pc = "transpiling"
               /\ req'[r].hash = md5(code)
               /\ \A other \in Reqs \ {r} : req'[other] = req[other]
       /\ \A outcome \in {"returns", "returnsVariant"} :
            ( /\ TranspileDone(r, outcome)
              /\ Len(req[r].hash) + Len(transpilerOutput(req[r].code, outcome))
                   <= maxTranspileCacheSize )
            => /\ LRUGet(transpileCache', req[r].hash) = transpilerOutput(req[r].code, outcome)
               /\ transpileCache'[Len(transpileCache')].key = req[r].hash
               /\ req'[r].transpile.result.transpiled =
                    transpilerOutput(req[r].code, outcome)]_vars

\* two calls with the same code were given different strings by the transpiler,
\* and the cache holds what the second of them wrote
C12_Witness ==
  \E r1, r2 \in Reqs :
    /\ ReadTranspiled(r1)
    /\ ReadTranspiled(r2)
    /\ req[r1].code = req[r2].code
    /\ req[r1].read.content # req[r2].read.content
    /\ LRUGet(transpileCache, md5(req[r2].code)) = req[r2].read.content

\* C13: the transpiler being deterministic, all calls of maybeTranspile that
\* succeed on a path that is not native with the same code return the same
\* string, whether a call was served from the cache, awaited the transpiler
\* alone, or awaited it while another call did; the entry under the code's
\* digest, while there is one, is that string too
C13_SameCodeSameTranspiled ==
  \A r1, r2 \in Reqs :
    (ReadTranspiled(r1) /\ ReadTranspiled(r2) /\ req[r1].code = req[r2].code)
      => /\ req[r1].read.content = req[r2].read.content
         /\ LRUGet(transpileCache, md5(req[r1].code)) \in {Undefined, req[r1].read.content}

\* two calls on different paths returned for the same code, whose entry the
\* cache holds
C13_Witness ==
  \E r1, r2 \in Reqs :
    /\ ReadTranspiled(r1)
    /\ ReadTranspiled(r2)
    /\ req[r1].filePath # req[r2].filePath
    /\ req[r1].code = req[r2].code
    /\ LRUGet(transpileCache, md5(req[r1].code)) = req[r2].read.content

(***************************************************************************)
(* An entry bigger than the whole budget                                   *)
(***************************************************************************)

\* the transpiled string of code, with its digest, is bigger than the budget of
\* the transpile cache
OversizedTranspiled(code) ==
  Len(md5(code)) + Len(transpiledCode(code)) > maxTranspileCacheSize

\* the analysis of code, with the digest, is bigger than the budget of the
\* analysis cache
OversizedAnalysis(code) ==
  Len(md5(code)) + Len(JSONStringify(analyzedResult(code))) > maxAnalyzeCacheSize

\* C14 as stated: when a set stores an entry whose own accounted size exceeds
\* the budget, the entry is still inserted, and a get for that key immediately
\* after the set returns the stored value
C14_OversizedStillInserted ==
  [][\A r \in Reqs :
       ( /\ req[r].pc = "transpiling"
         /\ OversizedTranspiled(req[r].code)
         /\ TranspileDone(r, "returns") )
       => LRUGet(transpileCache', req[r].hash) = transpiledCode(req[r].code)]_vars

\* C14, amended: when a set is given an entry whose own accounted size exceeds
\* the budget, the entry is not inserted: a get for that key immediately after
\* the set misses, the entries of the other keys stay, and the call still
\* returns the value it was about to store; so with the transpile cache, so
\* with the analysis cache
C14_OversizedNotStored ==
  [][\A r \in Reqs :
       /\ ( /\ req[r].pc = "transpiling"
            /\ OversizedTranspiled(req[r].code)
            /\ TranspileDone(r, "returns") )
          => /\ LRUGet(transpileCache', req[r].hash) = Undefined
             /\ transpileCache' = transpileCache
             /\ req'[r].transpile.result.transpiled = transpiledCode(req[r].code)
       /\ ( /\ AnalysisMiss(r)
            /\ OversizedAnalysis(req[r].read.content)
            /\ CoreAnalyze(r, "result") )
          => /\ LRUGet(analyzeCache', md5(req[r].read.content)) = Undefined
             /\ analyzeCache' = analyzeCache
             /\ req'[r].pc = "analyzed"]_vars

\* a call returned a transpiled string too big for the cache, which holds other
\* entries and none under the digest of that call
C14_Witness ==
  \E r \in Reqs :
    /\ ReadTranspiled(r)
    /\ OversizedTranspiled(req[r].code)
    /\ req[r].read.content = transpiledCode(req[r].code)
    /\ transpileCache # <<>>
    /\ LRUGet(transpileCache, md5(req[r].code)) = Undefined

(***************************************************************************)
(* Failures raised out of the router                                       *)
(***************************************************************************)

\* C15: a HEAD request fails before classification, whatever its path: the
\* handler raises, so the request neither enters the core nor is passed on to
\* the next handler, none of the four outcomes is emitted, both caches are left
\* as they were, and nothing of the router answers the request afterwards
C15_HeadFailsBeforeClassification ==
  /\ [][\A r \in Reqs, url \in Urls :
          Receive(r, "HEAD", url) =>
            /\ req'[r].pc = "thrown"
            /\ req'[r].pc \notin {"core", "static"}
            /\ req'[r].res = <<>>
            /\ transpileCache' = transpileCache
            /\ analyzeCache' = analyzeCache]_vars
  /\ [][\A r \in Reqs :
          req[r].pc = "thrown" => req'[r] \in {req[r], IdleReq}]_vars
  /\ [](\A r \in Reqs : req[r].pc = "thrown" => req[r].res = <<>>)

\* a HEAD request has failed while both caches hold entries
C15_Witness ==
  \E r \in Reqs :
    /\ req[r].pc = "thrown"
    /\ transpileCache # <<>>
    /\ analyzeCache # <<>>

\* C16: when the transpiler returns without a string and without throwing,
\* maybeTranspile stores nothing and produces neither a transpiled string nor an
\* error: it raises, the failure leaves tryReadScriptAsString, when it goes on
\* after its await, as a raised failure, and the request holds no read result,
\* in particular no IO_ERROR
C16_NoStringIsRaised ==
  /\ [][\A r \in Reqs :
          /\ TranspileDone(r, "returnsUndefined") =>
               /\ maybeTranspileResume(transpileCache, req[r].hash, req[r].code,
                                       "returnsUndefined").result = NoTranspileResult
               /\ transpileCache' = transpileCache
               /\ req'[r].pc = "transpiled"
               /\ req'[r].transpile = [result |-> NoTranspileResult, threw |-> TRUE]
               /\ req'[r].read = NoRead
               /\ req'[r].res = <<>>
          /\ (req[r].pc = "transpiled" /\ req[r].transpile.threw /\ ReadReturn(r)) =>
               /\ req'[r].pc = "rejected"
               /\ req'[r].read = NoRead
               /\ req'[r].res = <<>>]_vars
  /\ [](\A r \in Reqs :
          req[r].read.error.code = "IO_ERROR" =>
            req[r].read.error.cause \in {TranspileError} \cup (ReadErrorCodes \ {"ENOENT"}))

\* the transpiler call of a request returned no string: the failure was raised
\* out of tryReadScriptAsString, while the cache holds entries of other calls
C16_Witness ==
  \E r \in Reqs :
    /\ req[r].pc = "rejected"
    /\ req[r].resolution = NoResolution
    /\ req[r].read = NoRead
    /\ transpileCache # <<>>

(***************************************************************************)
(* The order of the steps of tryReadScriptAsString                         *)
(***************************************************************************)

\* C17: within tryReadScriptAsString the steps are read, then transpile, then
\* return. A request awaits the transpiler only with the content its read gave
\* it; the transpile cache is consulted or changed only by a request whose read
\* has succeeded; and a read that fails makes tryReadScriptAsString return the
\* error without the transpiler being invoked and with the transpile cache
\* neither read nor changed
C17_ReadThenTranspile ==
  /\ [][\A r \in Reqs :
          /\ \A errCode \in ReadErrorCodes :
               ReadDone(r, errCode) =>
                 /\ req'[r].pc = "read_done"
                 /\ req'[r].read = readFailed(errCode)
                 /\ req'[r].read.content = Undefined
                 /\ transpileCache' = transpileCache
                 /\ transpileRecency' = transpileRecency
          /\ req[r].pc = "reading" =>
               req'[r].pc \in {"reading", "transpiling", "transpiled", "read_done"}
          /\ (req[r].pc = "reading" /\ req'[r].pc = "read_done") =>
               req'[r].read.error.cause \in ReadErrorCodes
          /\ req'[r].pc = "transpiling" => req[r].pc \in {"reading", "transpiling"}
          /\ req[r].pc = "transpiling" => req'[r].pc \in {"transpiling", "transpiled"}
          /\ req'[r].pc = "transpiled" =>
               req[r].pc \in {"reading", "transpiling", "transpiled"}
          /\ req[r].pc = "transpiled" =>
               req'[r].pc \in {"transpiled", "read_done", "rejected"}
          /\ (req[r].pc = "transpiled" /\ req'[r].pc = "read_done") =>
               req'[r].read = readTranspiled(req[r].transpile.result)]_vars
  /\ [][(transpileCache' # transpileCache \/ transpileRecency' # transpileRecency) =>
          \E r \in Reqs :
            \/ /\ req[r].pc = "reading"
               /\ req'[r].pc = "transpiled"
               /\ req'[r].transpile.result.error = Undefined
               /\ req'[r].code \in Contents
            \/ /\ req[r].pc = "transpiling"
               /\ req'[r].pc = "transpiled"
               /\ req'[r].transpile.result.transpiled # Undefined]_vars
  /\ [](\A r \in Reqs :
          req[r].pc = "transpiling" =>
            /\ req[r].code \in Contents
            /\ req[r].hash = md5(req[r].code)
            /\ ToTranspile(req[r].filePath))

\* a read has failed with the transpile cache holding entries, another request
\* awaiting the transpiler meanwhile
C17_Witness ==
  \E r, other \in Reqs :
    /\ req[r].pc = "read_done"
    /\ req[r].read.error # NoReadError
    /\ req[r].read.error.cause \in ReadErrorCodes
    /\ req[other].pc = "transpiling"
    /\ transpileCache # <<>>

(***************************************************************************)
(* analyzeCode is one step                                                 *)
(***************************************************************************)

\* C18: analyzeCode has no suspension point, so its lookup, the call of the
\* analyzer and the store are one step that no other request interleaves with:
\* the analyzer is invoked only when the digest has no entry, the entry of a
\* successful analysis that fits is there when the step ends, and a call that
\* finds the entry does not invoke the analyzer (whose failure therefore cannot
\* show) and leaves the entry's value; so two calls for one digest never both
\* miss while the entry of the first is retained
C18_AnalyzeCodeAtomic ==
  [][\A r \in Reqs, outcome \in AnalyzerOutcomes :
       ( /\ req[r].pc = "read_done"
         /\ req[r].read.error = NoReadError
         /\ CoreAnalyze(r, outcome) )
       => LET code == req[r].read.content
              retained == md5(code) \in LRUKeys(analyzeCache)
          IN  /\ req'[r].pc \in {"analyzed", "responded"}
              /\ \A other \in Reqs \ {r} : req'[other] = req[other]
              /\ req'[r].analyzerInvoked = ~retained
              /\ retained =>
                   /\ req'[r].pc = "analyzed"
                   /\ LRUGet(analyzeCache', md5(code)) = LRUGet(analyzeCache, md5(code))
              /\ (~retained /\ req'[r].pc = "analyzed" /\ ~OversizedAnalysis(code)) =>
                   LRUGet(analyzeCache', md5(code)) = analyzedResult(code)]_vars

\* two requests hold the analysis of the same content: for one the analyzer was
\* invoked, the other found the entry, which is retained
C18_Witness ==
  \E r1, r2 \in Reqs :
    /\ req[r1].pc = "analyzed"
    /\ req[r2].pc = "analyzed"
    /\ req[r1].read.content = req[r2].read.content
    /\ req[r1].analyzerInvoked
    /\ ~req[r2].analyzerInvoked
    /\ LRUGet(analyzeCache, md5(req[r1].read.content)) = analyzedResult(req[r1].read.content)

(***************************************************************************)
(* What the transpile cache holds                                          *)
(***************************************************************************)

\* C19: every entry of the transpile cache maps the digest of some content to
\* what the transpiler makes of that content, and every call of maybeTranspile
\* that succeeds on a path that is not native returns what the transpiler makes
\* of the code it was given; the contents the router hashes have digests of
\* their own, which this rests on
C19_DigestToTranspilerOutput ==
  /\ \A i \in DOMAIN transpileCache :
       \E code \in Contents :
         /\ transpileCache[i].key = md5(code)
         /\ transpileCache[i].value = transpiledCode(code)
  /\ \A r \in Reqs :
       ReadTranspiled(r) => req[r].read.content = transpiledCode(req[r].code)
  /\ \A c1, c2 \in Contents : md5(c1) = md5(c2) => c1 = c2

\* the cache holds the entries of two contents, and a call for one of them on
\* another path than the call before has returned the entry's value
C19_Witness ==
  \E r1, r2 \in Reqs :
    /\ Len(transpileCache) = 2
    /\ ReadTranspiled(r1)
    /\ ReadTranspiled(r2)
    /\ req[r1].code # req[r2].code
    /\ LRUGet(transpileCache, md5(req[r1].code)) = req[r1].read.content
    /\ LRUGet(transpileCache, md5(req[r2].code)) = req[r2].read.content

(***************************************************************************)
(* A transpiler call that never returns                                    *)
(***************************************************************************)

\* C20: when the transpiler call of one request never returns, that request
\* never responds: while it awaits the transpiler it has no response, and only
\* the return of its transpiler call takes it on. Any other request, the core
\* going on with it and the calls it awaits returning, still reaches its
\* response, whatever the first request does
C20_OthersNotBlocked ==
  /\ \A r \in Reqs \ {Stalled} :
       (req[r].pc = "core") ~> (req[r].pc = "responded")
  /\ [](\A r \in Reqs : req[r].pc = "transpiling" => req[r].res = <<>>)
  /\ [][\A r \in Reqs :
          (req[r].pc = "transpiling" /\ req'[r].pc # "transpiling")
            => \E outcome \in TranspilerOutcomes : TranspileDone(r, outcome)]_vars

\* with the transpiler call of the first request pending, another request has
\* been answered with content that came from a file to transpile
C20_Witness ==
  \E r \in Reqs \ {Stalled} :
    /\ req[Stalled].pc = "transpiling"
    /\ req[r].pc = "responded"
    /\ req[r].res = << 200 >>
    /\ transpileCache # <<>>
====
